---- MODULE Spec2Model ----
(***************************************************************************)
(* Model of the loss-selection, loss-composition and discriminator-input   *)
(* logic of ashpy (ashpy/losses/gan.py) and of the multi-scale             *)
(* discriminator (ashpy/models/convolutional/discriminators.py).           *)
(*                                                                         *)
(* Tensors and network evaluations are uninterpreted: a tensor is a record *)
(* naming its origin and the operations applied to it, so that "which      *)
(* tensor went where, in what order" is what the model decides.            *)
(***************************************************************************)
EXTENDS Integers, Sequences, FiniteSets, TLC

VARIABLES
    call,     \* the invocation at hand: the operation and its arguments
    result,   \* what it returned or raised (Pending until it has run)
    log,      \* the sub-model invocations it made, in order
    msd       \* the MultiScaleDiscriminator objects built (at most one)

vars == <<call, result, log, msd>>

----------------------------------------------------------------------------
(* Bounds of the model.                                                    *)

\* discriminator_model.inputs has 0..MaxInputs entries
MaxInputs == 4
\* n_discriminators ranges over 0..MaxDiscriminators
MaxDiscriminators == 3
\* a sub-discriminator returns 0..MaxFeatures feature tensors
MaxFeatures == 2
\* integer and float arguments range over -1..MaxNumber
MaxNumber == 2

----------------------------------------------------------------------------
(* Python values.  A value carries its type; numbers carry ten times their *)
(* value in x10, so that floats such as 0.5 and 0.3 are representable.     *)

PyInt(n) == [type |-> "int", x10 |-> 10 * n, s |-> ""]
PyBool(b) == [type |-> "bool", x10 |-> IF b THEN 10 ELSE 0, s |-> ""]
PyFloatTenths(k) == [type |-> "float", x10 |-> k, s |-> ""]
PyType(name) == [type |-> "type", x10 |-> 0, s |-> name]
PyStr(str) == [type |-> "str", x10 |-> 0, s |-> str]
PyNone == [type |-> "NoneType", x10 |-> 0, s |-> ""]
PyEnum(member) == [type |-> "AdversarialLossType", x10 |-> 0, s |-> member]

\* a parameter the caller did not pass
Missing == [type |-> "<missing>", x10 |-> 0, s |-> ""]

Default(arg, dflt) == IF arg = Missing THEN dflt ELSE arg

IsNumber(v) == v.type \in {"int", "bool", "float"}

\* class AdversarialLossType(Enum): GAN = 0, LSGAN = 1
GAN == PyEnum("GAN")
LSGAN == PyEnum("LSGAN")
AdversarialLossType == {GAN, LSGAN}

EnumValue(member) == IF member = GAN THEN PyInt(0) ELSE PyInt(1)

\* Python's ==.  An Enum member is equal only to itself (Enum is not
\* IntEnum); int, bool and float compare by numeric value; str compares by
\* content; None is equal only to None.
PyEq(a, b) ==
    IF IsNumber(a) /\ IsNumber(b) THEN a.x10 = b.x10
    ELSE a = b

----------------------------------------------------------------------------
(* Return values and exceptions.                                           *)

Return(v) == [exc |-> "none", value |-> v]
Raise(e) == [exc |-> e, value |-> <<>>]
\* the invocation has not run yet
Pending == [exc |-> "pending", value |-> <<>>]

Class(name) == [kind |-> "class", name |-> name]

----------------------------------------------------------------------------
(* Utility functions selecting the adversarial loss.                       *)

\* variant: the two returned classes are exchanged
get_adversarial_loss_discriminator_exchanged(adversarial_loss_type_arg) ==
    LET adversarial_loss_type == Default(adversarial_loss_type_arg, GAN) IN
    IF \/ PyEq(adversarial_loss_type, GAN)
       \/ PyEq(adversarial_loss_type, EnumValue(GAN))
    THEN Return(Class("DiscriminatorLSGAN"))
    ELSE IF \/ PyEq(adversarial_loss_type, LSGAN)
            \/ PyEq(adversarial_loss_type, EnumValue(LSGAN))
    THEN Return(Class("DiscriminatorMinMax"))
    ELSE Raise("ValueError")

get_adversarial_loss_discriminator(adversarial_loss_type_arg) ==
    LET adversarial_loss_type == Default(adversarial_loss_type_arg, GAN) IN
    IF \/ PyEq(adversarial_loss_type, GAN)
       \/ PyEq(adversarial_loss_type, EnumValue(GAN))
    THEN Return(Class("DiscriminatorMinMax"))
    ELSE IF \/ PyEq(adversarial_loss_type, LSGAN)
            \/ PyEq(adversarial_loss_type, EnumValue(LSGAN))
    THEN Return(Class("DiscriminatorLSGAN"))
    ELSE Raise("ValueError")

\* variant: only the enum members are compared, not their values
get_adversarial_loss_generator_members_only(adversarial_loss_type_arg) ==
    LET adversarial_loss_type == Default(adversarial_loss_type_arg, GAN) IN
    IF PyEq(adversarial_loss_type, GAN)
    THEN Return(Class("GeneratorBCE"))
    ELSE IF PyEq(adversarial_loss_type, LSGAN)
    THEN Return(Class("GeneratorLSGAN"))
    ELSE Raise("ValueError")

get_adversarial_loss_generator(adversarial_loss_type_arg) ==
    LET adversarial_loss_type == Default(adversarial_loss_type_arg, GAN) IN
    IF \/ PyEq(adversarial_loss_type, GAN)
       \/ PyEq(adversarial_loss_type, EnumValue(GAN))
    THEN Return(Class("GeneratorBCE"))
    ELSE IF \/ PyEq(adversarial_loss_type, LSGAN)
            \/ PyEq(adversarial_loss_type, EnumValue(LSGAN))
    THEN Return(Class("GeneratorLSGAN"))
    ELSE Raise("ValueError")

----------------------------------------------------------------------------
(* Tensors.                                                                *)

\* a tensor handed in by the caller
Input(name) == [name |-> name, encoded |-> FALSE, enc_training |-> FALSE,
                pooled |-> 0]

\* context.encoder_model(x, training=training)
encoder_model(x, training) ==
    [x EXCEPT !.encoded = TRUE, !.enc_training = training]

\* self.subsampling(x): one more average pooling
subsampling(x) == [x EXCEPT !.pooled = @ + 1]

Images == {Input("fake"), Input("real")}
Conditions == {Input("condition"), Input("noise")}

List(items) == [kind |-> "list", items |-> items]
Tensor(t) == [kind |-> "tensor", items |-> <<t>>]

----------------------------------------------------------------------------
(* GANExecutor.get_discriminator_inputs.  The value is the pair of what is *)
(* returned or raised (ret) and the encoder invocations made (log).        *)

EncoderCall(x, training) ==
    [model |-> "encoder_model", x |-> x, training |-> training]

\* variant: the three-input list is built with the condition before the
\* encoding
d_inputs_with_encoder_swapped(num_inputs, fake_or_real, condition, training) ==
    IF num_inputs = 2
    THEN [ret |-> Return(List(<<fake_or_real,
                                encoder_model(fake_or_real, training)>>)),
          log |-> <<EncoderCall(fake_or_real, training)>>]
    ELSE IF num_inputs = 3
    THEN [ret |-> Return(List(<<fake_or_real, condition,
                                encoder_model(fake_or_real, training)>>)),
          log |-> <<EncoderCall(fake_or_real, training)>>]
    ELSE [ret |-> Raise("ValueError"), log |-> <<>>]

\* variant: an unsupported number of inputs falls back to the bare tensor
\* instead of raising
d_inputs_with_encoder_lenient(num_inputs, fake_or_real, condition, training) ==
    IF num_inputs = 2
    THEN [ret |-> Return(List(<<fake_or_real,
                                encoder_model(fake_or_real, training)>>)),
          log |-> <<EncoderCall(fake_or_real, training)>>]
    ELSE IF num_inputs = 3
    THEN [ret |-> Return(List(<<fake_or_real,
                                encoder_model(fake_or_real, training),
                                condition>>)),
          log |-> <<EncoderCall(fake_or_real, training)>>]
    ELSE [ret |-> Return(Tensor(fake_or_real)), log |-> <<>>]

\* the branch taken when hasattr(context, "encoder_model")
d_inputs_with_encoder(num_inputs, fake_or_real, condition, training) ==
    IF num_inputs = 2
    THEN [ret |-> Return(List(<<fake_or_real,
                                encoder_model(fake_or_real, training)>>)),
          log |-> <<EncoderCall(fake_or_real, training)>>]
    ELSE IF num_inputs = 3
    THEN [ret |-> Return(List(<<fake_or_real,
                                encoder_model(fake_or_real, training),
                                condition>>)),
          log |-> <<EncoderCall(fake_or_real, training)>>]
    ELSE [ret |-> Raise("ValueError"), log |-> <<>>]

\* variant: any discriminator with at least two inputs is taken as
\* conditioned
d_inputs_without_encoder_atleast(num_inputs, fake_or_real, condition) ==
    IF num_inputs >= 2
    THEN [ret |-> Return(List(<<fake_or_real, condition>>)), log |-> <<>>]
    ELSE [ret |-> Return(Tensor(fake_or_real)), log |-> <<>>]

\* the branch taken when the context has no encoder_model
d_inputs_without_encoder(num_inputs, fake_or_real, condition) ==
    IF num_inputs = 2
    THEN [ret |-> Return(List(<<fake_or_real, condition>>)), log |-> <<>>]
    ELSE [ret |-> Return(Tensor(fake_or_real)), log |-> <<>>]

get_discriminator_inputs(context, fake_or_real, condition, training) ==
    LET num_inputs == context.num_inputs IN
    IF context.has_encoder_model
    THEN d_inputs_with_encoder(num_inputs, fake_or_real, condition, training)
    ELSE d_inputs_without_encoder(num_inputs, fake_or_real, condition)

Contexts == [has_encoder_model : BOOLEAN, num_inputs : 0..MaxInputs]

----------------------------------------------------------------------------
(* Composite generator losses.  executor * weight is the executor with its *)
(* weight set; the constructor hands the list of them to SumExecutor.      *)

\* Python truth value, as tested by "if use_feature_matching_loss:"
Truthy(v) ==
    IF IsNumber(v) THEN v.x10 # 0
    ELSE IF v.type = "str" THEN v.s # ""
    ELSE v.type # "NoneType"

Weighted(executor, weight) == [executor |-> executor, weight |-> weight]

\* defaults of Pix2PixLoss.__init__ and Pix2PixLossSemantic.__init__
Default_l1_loss_weight == PyFloatTenths(1000)
Default_cross_entropy_weight == PyFloatTenths(1000)
Default_adversarial_loss_weight == PyFloatTenths(10)
Default_feature_matching_weight == PyFloatTenths(100)

\* variant: the feature matching term is scaled by the L1 weight
Pix2PixLoss_fm_scaled_by_l1(l1_loss_weight_arg, adversarial_loss_weight_arg, feature_matching_weight_arg, adversarial_loss_type_arg, use_feature_matching_loss_arg) ==
    LET l1_loss_weight == Default(l1_loss_weight_arg, Default_l1_loss_weight)
        adversarial_loss_weight ==
            Default(adversarial_loss_weight_arg, Default_adversarial_loss_weight)
        adversarial_loss_type == Default(adversarial_loss_type_arg, GAN)
        use_feature_matching_loss ==
            Default(use_feature_matching_loss_arg, PyBool(FALSE))
        adversarial == get_adversarial_loss_generator(adversarial_loss_type)
    IN  IF adversarial.exc # "none" THEN Raise(adversarial.exc)
        ELSE LET executors ==
                     << Weighted("GeneratorL1", l1_loss_weight),
                        Weighted(adversarial.value.name,
                                 adversarial_loss_weight) >>
             IN  IF Truthy(use_feature_matching_loss)
                 THEN Return(Append(executors,
                                    Weighted("FeatureMatchingLoss",
                                             l1_loss_weight)))
                 ELSE Return(executors)

Pix2PixLoss(l1_loss_weight_arg, adversarial_loss_weight_arg, feature_matching_weight_arg, adversarial_loss_type_arg, use_feature_matching_loss_arg) ==
    LET l1_loss_weight == Default(l1_loss_weight_arg, Default_l1_loss_weight)
        adversarial_loss_weight ==
            Default(adversarial_loss_weight_arg, Default_adversarial_loss_weight)
        feature_matching_weight ==
            Default(feature_matching_weight_arg, Default_feature_matching_weight)
        adversarial_loss_type == Default(adversarial_loss_type_arg, GAN)
        use_feature_matching_loss ==
            Default(use_feature_matching_loss_arg, PyBool(FALSE))
        adversarial == get_adversarial_loss_generator(adversarial_loss_type)
    IN  IF adversarial.exc # "none" THEN Raise(adversarial.exc)
        ELSE LET executors ==
                     << Weighted("GeneratorL1", l1_loss_weight),
                        Weighted(adversarial.value.name,
                                 adversarial_loss_weight) >>
             IN  IF Truthy(use_feature_matching_loss)
                 THEN Return(Append(executors,
                                    Weighted("FeatureMatchingLoss",
                                             feature_matching_weight)))
                 ELSE Return(executors)

\* variant: the first term is the L1 loss, as in Pix2PixLoss
Pix2PixLossSemantic_with_l1(cross_entropy_weight_arg, adversarial_loss_weight_arg, feature_matching_weight_arg, adversarial_loss_type_arg, use_feature_matching_loss_arg) ==
    Pix2PixLoss(cross_entropy_weight_arg, adversarial_loss_weight_arg,
                feature_matching_weight_arg, adversarial_loss_type_arg,
                use_feature_matching_loss_arg)

Pix2PixLossSemantic(cross_entropy_weight_arg, adversarial_loss_weight_arg, feature_matching_weight_arg, adversarial_loss_type_arg, use_feature_matching_loss_arg) ==
    LET cross_entropy_weight ==
            Default(cross_entropy_weight_arg, Default_cross_entropy_weight)
        adversarial_loss_weight ==
            Default(adversarial_loss_weight_arg, Default_adversarial_loss_weight)
        feature_matching_weight ==
            Default(feature_matching_weight_arg, Default_feature_matching_weight)
        adversarial_loss_type == Default(adversarial_loss_type_arg, GAN)
        use_feature_matching_loss ==
            Default(use_feature_matching_loss_arg, PyBool(FALSE))
        adversarial == get_adversarial_loss_generator(adversarial_loss_type)
    IN  IF adversarial.exc # "none" THEN Raise(adversarial.exc)
        ELSE LET executors ==
                     << Weighted("CategoricalCrossEntropy",
                                 cross_entropy_weight),
                        Weighted(adversarial.value.name,
                                 adversarial_loss_weight) >>
             IN  IF Truthy(use_feature_matching_loss)
                 THEN Return(Append(executors,
                                    Weighted("FeatureMatchingLoss",
                                             feature_matching_weight)))
                 ELSE Return(executors)

----------------------------------------------------------------------------
(* MultiScaleDiscriminator.                                                *)

RECURSIVE Pow2(_)
Pow2(i) == IF i = 0 THEN 1 ELSE 2 * Pow2(i - 1)

\* int(a / b) for b > 0: true division, then truncation towards zero
IntOfQuotient(a, b) == IF a >= 0 THEN a \div b ELSE -((-a) \div b)

\* variant: the exponent is off by one
ScaledResolution_off_by_one(input_res, i) ==
    IntOfQuotient(input_res, Pow2(i + 1))

\* int(input_res / (2 ** i))
ScaledResolution(input_res, i) == IntOfQuotient(input_res, Pow2(i))

\* self.build_discriminator(input_res): the PatchDiscriminator built, as the
\* arguments it is constructed with
build_discriminator(self, input_res) ==
    [input_res |-> input_res,
     min_res |-> self.min_res,
     kernel_size |-> self.kernel_size,
     initial_filters |-> self.initial_filters,
     filters_cap |-> self.filters_cap,
     use_dropout |-> self.use_dropout,
     dropout_prob |-> self.dropout_prob,
     non_linearity |-> self.non_linearity,
     use_attention |-> self.use_attention,
     normalization_layer |-> self.normalization_layer]

\* for i in range(n): self.discriminators.append(...)
RECURSIVE BuildDiscriminators(_, _, _)
BuildDiscriminators(self, input_res, n) ==
    IF n <= 0 THEN <<>>
    ELSE Append(BuildDiscriminators(self, input_res, n - 1),
                build_discriminator(self, ScaledResolution(input_res, n - 1)))

\* defaults of MultiScaleDiscriminator.__init__
Default_use_dropout == PyBool(TRUE)
Default_dropout_prob == PyFloatTenths(3)
Default_non_linearity == PyType("LeakyReLU")
Default_normalization_layer == PyType("InstanceNormalization")
Default_use_attention == PyBool(FALSE)
Default_n_discriminators == 1

\* MultiScaleDiscriminator.__init__: the attributes of the object built.
\* a holds the actual arguments; n_discriminators is an integer or Missing.
MultiScaleDiscriminator(a) ==
    LET self ==
            [n_discriminators |->
                 IF a.n_discriminators = Missing
                 THEN Default_n_discriminators
                 ELSE a.n_discriminators.x10 \div 10,
             input_res |-> a.input_res,
             min_res |-> a.min_res,
             kernel_size |-> a.kernel_size,
             initial_filters |-> a.initial_filters,
             filters_cap |-> a.filters_cap,
             dropout_prob |-> Default(a.dropout_prob, Default_dropout_prob),
             non_linearity |-> Default(a.non_linearity, Default_non_linearity),
             use_dropout |-> Default(a.use_dropout, Default_use_dropout),
             use_attention |-> Default(a.use_attention, Default_use_attention),
             normalization_layer |->
                 Default(a.normalization_layer, Default_normalization_layer)]
    IN  [n_discriminators |-> self.n_discriminators,
         input_res |-> self.input_res,
         min_res |-> self.min_res,
         kernel_size |-> self.kernel_size,
         initial_filters |-> self.initial_filters,
         filters_cap |-> self.filters_cap,
         dropout_prob |-> self.dropout_prob,
         non_linearity |-> self.non_linearity,
         use_dropout |-> self.use_dropout,
         use_attention |-> self.use_attention,
         normalization_layer |-> self.normalization_layer,
         discriminators |->
             BuildDiscriminators(self, self.input_res, self.n_discriminators),
         inputs |-> <<1, 1>>]

\* the invocation d([x, condition], training=..., return_features=...) of
\* the index-th member of self.discriminators
DiscriminatorCall(index, x, condition, training, return_features) ==
    [model |-> "discriminator", index |-> index, x |-> x,
     condition |-> condition, training |-> training,
     return_features |-> return_features]

\* a tensor computed by the index-th discriminator: its output (layer 0) or
\* the feature of its layer-th layer
D(index, x, condition, training, layer) ==
    [d |-> index, x |-> x, condition |-> condition, training |-> training,
     layer |-> layer]

\* return_features as MultiScaleDiscriminator.call hands it to each member
member_return_features(return_features) == TRUE

\* variant: the features are returned whether asked for or not
call_return_always_features(outs, features, return_features) ==
    Return([kind |-> "tuple", outs |-> outs, features |-> features])

\* "handle output values"
call_return(outs, features, return_features) ==
    IF return_features
    THEN Return([kind |-> "tuple", outs |-> outs, features |-> features])
    ELSE Return(List(outs))

\* the loop of MultiScaleDiscriminator.call from index i on; n_features[i]
\* is the number of features the i-th member returns
RECURSIVE call_loop(_, _, _, _, _, _, _, _)
call_loop(self, n_features, training, return_features, i, x_i, condition_i, acc) ==
    IF i > Len(self.discriminators) THEN acc
    ELSE LET out == D(i, x_i, condition_i, training, 0)
             feat == [j \in 1..n_features[i] |->
                          D(i, x_i, condition_i, training, j)]
             last == (i = Len(self.discriminators))
         IN  call_loop(self, n_features, training, return_features, i + 1,
                       IF last THEN x_i ELSE subsampling(x_i),
                       IF last THEN condition_i ELSE subsampling(condition_i),
                       [outs |-> Append(acc.outs, out),
                        features |-> acc.features \o feat,
                        log |-> Append(acc.log,
                                       DiscriminatorCall(i, x_i, condition_i,
                                           training,
                                           member_return_features(
                                               return_features)))])

\* MultiScaleDiscriminator.call(inputs=[xs, condition], training,
\* return_features)
MultiScaleDiscriminator_call(self, n_features, xs, condition, training_arg, return_features_arg) ==
    LET training == Default(training_arg, PyBool(TRUE))
        return_features == Default(return_features_arg, PyBool(FALSE))
        done == call_loop(self, n_features, training, return_features, 1, xs,
                          condition,
                          [outs |-> <<>>, features |-> <<>>, log |-> <<>>])
    IN  [ret |-> call_return(done.outs, done.features,
                             Truthy(return_features)),
         log |-> done.log]

----------------------------------------------------------------------------
(* Arguments the operations are invoked with.                              *)

OptionalBool == {Missing, PyBool(TRUE), PyBool(FALSE)}
\* training is True unless given
TrainingArgs == {Missing, PyBool(FALSE)}

LossTypeArgs ==
    {Missing, GAN, LSGAN, PyNone, PyStr("GAN"), PyStr("LSGAN"),
     PyBool(TRUE), PyBool(FALSE)}
    \cup {PyInt(n) : n \in -1..MaxNumber}
    \cup {PyFloatTenths(5 * k) : k \in -2..(2 * MaxNumber)}

WeightArgs == {Missing, PyFloatTenths(5)}

InputResolutions == {1, 12, 256}

MemberSettings ==
    { [min_res |-> 16, kernel_size |-> 4, initial_filters |-> 64,
       filters_cap |-> 512, use_dropout |-> Missing,
       dropout_prob |-> Missing, non_linearity |-> Missing,
       normalization_layer |-> Missing, use_attention |-> Missing],
      [min_res |-> 8, kernel_size |-> 3, initial_filters |-> 32,
       filters_cap |-> 128, use_dropout |-> PyBool(FALSE),
       dropout_prob |-> PyFloatTenths(5), non_linearity |-> PyType("ReLU"),
       normalization_layer |-> PyType("BatchNormalization"),
       use_attention |-> PyBool(TRUE)] }

MultiScaleDiscriminatorArgs ==
    { [input_res |-> r, min_res |-> m.min_res, kernel_size |-> m.kernel_size,
       initial_filters |-> m.initial_filters, filters_cap |-> m.filters_cap,
       use_dropout |-> m.use_dropout, dropout_prob |-> m.dropout_prob,
       non_linearity |-> m.non_linearity,
       normalization_layer |-> m.normalization_layer,
       use_attention |-> m.use_attention, n_discriminators |-> n] :
      r \in InputResolutions, m \in MemberSettings,
      n \in {Missing} \cup {PyInt(k) : k \in 0..MaxDiscriminators} }

----------------------------------------------------------------------------------------------------------------------------------------
(* The state machine.  A behaviour starts with an invocation to run; an    *)
(* action is the whole run of one operation.  A MultiScaleDiscriminator,   *)
(* once built, is called any number of times.                              *)

LossArgs ==
    [weight : WeightArgs, adversarial_loss_weight : WeightArgs,
     feature_matching_weight : WeightArgs,
     adversarial_loss_type : LossTypeArgs,
     use_feature_matching_loss : OptionalBool]

\* how many features each member returns: the same number k for all, or
\* numbers that differ from member to member
FeatureCounts(n) ==
    {[i \in 1..n |-> k] : k \in 0..MaxFeatures}
    \cup {[i \in 1..n |-> (i + k) % (MaxFeatures + 1)] : k \in 0..MaxFeatures}

Invoke(name, args) ==
    /\ call = [name |-> name, args |-> args]
    /\ result = Pending
    /\ log = <<>>
    /\ msd = <<>>

Init ==
    \/ \E a \in MultiScaleDiscriminatorArgs :
           Invoke("MultiScaleDiscriminator.__init__", a)
    \/ \E context \in Contexts, fake_or_real \in Images,
          condition \in Conditions, training \in BOOLEAN :
           Invoke("get_discriminator_inputs",
                  [context |-> context, fake_or_real |-> fake_or_real,
                   condition |-> condition, training |-> training])
    \/ \E t \in LossTypeArgs :
           \/ Invoke("get_adversarial_loss_generator",
                     [adversarial_loss_type |-> t])
           \/ Invoke("get_adversarial_loss_discriminator",
                     [adversarial_loss_type |-> t])
    \/ \E a \in LossArgs :
           \/ Invoke("Pix2PixLoss.__init__", a)
           \/ Invoke("Pix2PixLossSemantic.__init__", a)

Runs(name) == call.name = name /\ result = Pending

New_MultiScaleDiscriminator ==
    /\ Runs("MultiScaleDiscriminator.__init__")
    /\ result' = Return(PyNone)
    /\ msd' = <<MultiScaleDiscriminator(call.args)>>
    /\ UNCHANGED <<call, log>>

Call_MultiScaleDiscriminator ==
    /\ Len(msd) = 1
    /\ \E xs \in Images, condition \in Conditions,
          training \in TrainingArgs, return_features \in OptionalBool,
          n_features \in FeatureCounts(Len(msd[1].discriminators)) :
           LET r == MultiScaleDiscriminator_call(msd[1], n_features, xs,
                                                 condition, training,
                                                 return_features)
           IN  /\ call' = [name |-> "MultiScaleDiscriminator.call",
                           args |-> [xs |-> xs, condition |-> condition,
                                     training |-> training,
                                     return_features |-> return_features,
                                     n_features |-> n_features]]
               /\ result' = r.ret
               /\ log' = r.log
    /\ UNCHANGED msd

Call_get_discriminator_inputs ==
    /\ Runs("get_discriminator_inputs")
    /\ LET r == get_discriminator_inputs(call.args.context,
                                         call.args.fake_or_real,
                                         call.args.condition,
                                         call.args.training)
       IN  result' = r.ret /\ log' = r.log
    /\ UNCHANGED <<call, msd>>

Call_get_adversarial_loss_generator ==
    /\ Runs("get_adversarial_loss_generator")
    /\ result' = get_adversarial_loss_generator(call.args.adversarial_loss_type)
    /\ UNCHANGED <<call, log, msd>>

Call_get_adversarial_loss_discriminator ==
    /\ Runs("get_adversarial_loss_discriminator")
    /\ result' =
           get_adversarial_loss_discriminator(call.args.adversarial_loss_type)
    /\ UNCHANGED <<call, log, msd>>

New_Pix2PixLoss ==
    /\ Runs("Pix2PixLoss.__init__")
    /\ result' = Pix2PixLoss(call.args.weight,
                             call.args.adversarial_loss_weight,
                             call.args.feature_matching_weight,
                             call.args.adversarial_loss_type,
                             call.args.use_feature_matching_loss)
    /\ UNCHANGED <<call, log, msd>>

New_Pix2PixLossSemantic ==
    /\ Runs("Pix2PixLossSemantic.__init__")
    /\ result' = Pix2PixLossSemantic(call.args.weight,
                                     call.args.adversarial_loss_weight,
                                     call.args.feature_matching_weight,
                                     call.args.adversarial_loss_type,
                                     call.args.use_feature_matching_loss)
    /\ UNCHANGED <<call, log, msd>>

Next ==
    \/ New_MultiScaleDiscriminator
    \/ Call_MultiScaleDiscriminator
    \/ Call_get_discriminator_inputs
    \/ Call_get_adversarial_loss_generator
    \/ Call_get_adversarial_loss_discriminator
    \/ New_Pix2PixLoss
    \/ New_Pix2PixLossSemantic

Spec == Init /\ [][Next]_vars

----------------------------------------------------------------------------
(* Properties.                                                             *)

\* the operation name has run to its end (returned or raised)
Ran(name) == call.name = name /\ result.exc # "pending"

Returned(v) == result.exc = "none" /\ result.value = v
Raised(e) == result.exc = e /\ result.value = <<>>

\* C1: get_discriminator_inputs, context without encoder_model: with exactly
\* 2 discriminator inputs the result is the list [fake_or_real, condition];
\* with any other number of inputs it is fake_or_real itself, not in a list
\* and without the condition, and nothing is raised.
C1_InputsWithoutEncoder ==
    (Ran("get_discriminator_inputs")
        /\ ~call.args.context.has_encoder_model) =>
    LET a == call.args IN
    /\ result.exc = "none"
    /\ log = <<>>
    /\ IF a.context.num_inputs = 2
       THEN /\ result.value.kind = "list"
            /\ result.value.items = <<a.fake_or_real, a.condition>>
       ELSE /\ result.value.kind = "tensor"
            /\ result.value.items = <<a.fake_or_real>>

C1_Witness ==
    /\ Ran("get_discriminator_inputs")
    /\ ~call.args.context.has_encoder_model
    /\ call.args.context.num_inputs = 3
    /\ result.exc = "none"
    /\ result.value.kind = "tensor"

\* C2: get_discriminator_inputs, context with encoder_model: with 2 inputs
\* the result is [fake_or_real, encoder_model(fake_or_real)], with 3 inputs
\* [fake_or_real, encoder_model(fake_or_real), condition]; the encoder is
\* invoked exactly once, on fake_or_real, with the caller's training flag,
\* and the condition is in the result only in the 3-input case.
C2_InputsWithEncoder ==
    (Ran("get_discriminator_inputs")
        /\ call.args.context.has_encoder_model
        /\ call.args.context.num_inputs \in {2, 3}) =>
    LET a == call.args
        items == result.value.items
    IN  /\ result.exc = "none"
        /\ result.value.kind = "list"
        /\ Len(items) = a.context.num_inputs
        /\ items[1] = a.fake_or_real
        /\ items[2].name = a.fake_or_real.name
        /\ items[2].encoded
        /\ items[2].enc_training = a.training
        /\ a.context.num_inputs = 3 => items[3] = a.condition
        /\ a.context.num_inputs = 2 =>
               \A i \in 1..Len(items) : items[i] # a.condition
        /\ Len(log) = 1
        /\ log[1].model = "encoder_model"
        /\ log[1].x = a.fake_or_real
        /\ log[1].training = a.training

C2_Witness ==
    /\ Ran("get_discriminator_inputs")
    /\ call.args.context.has_encoder_model
    /\ call.args.context.num_inputs = 3
    /\ call.args.training
    /\ result.exc = "none"
    /\ Len(result.value.items) = 3
    /\ Len(log) = 1

\* C3: get_discriminator_inputs, context with encoder_model and a number
\* of discriminator inputs that is neither 2 nor 3: ValueError is raised,
\* no inputs are returned and the encoder is not invoked.
C3_EncoderArityError ==
    (Ran("get_discriminator_inputs")
        /\ call.args.context.has_encoder_model
        /\ call.args.context.num_inputs \notin {2, 3}) =>
    /\ Raised("ValueError")
    /\ log = <<>>

C3_Witness ==
    /\ Ran("get_discriminator_inputs")
    /\ call.args.context.has_encoder_model
    /\ call.args.context.num_inputs = 1
    /\ result.exc = "ValueError"

\* the integer n; bool is a subclass of int, so False and True are the
\* integers 0 and 1
IsInteger(v, n) == v.type \in {"int", "bool"} /\ v.x10 = 10 * n

\* the numbers (int, bool or float) whose value is n: the integer n and the
\* float n.0
HasValue(v, n) == v.type \in {"int", "bool", "float"} /\ v.x10 = 10 * n

\* C4 as stated: get_adversarial_loss_generator gives the class
\* GeneratorBCE for AdversarialLossType.GAN, the integer 0 or no argument,
\* the class GeneratorLSGAN for AdversarialLossType.LSGAN or the integer 1,
\* and raises ValueError for every other value.
C4_Original ==
    Ran("get_adversarial_loss_generator") =>
    LET t == call.args.adversarial_loss_type IN
    IF t = Missing \/ t = GAN \/ IsInteger(t, 0)
    THEN Returned(Class("GeneratorBCE"))
    ELSE IF t = LSGAN \/ IsInteger(t, 1)
    THEN Returned(Class("GeneratorLSGAN"))
    ELSE Raised("ValueError")

\* C4 (amended): get_adversarial_loss_generator gives the class
\* GeneratorBCE for AdversarialLossType.GAN, for no argument and for any
\* int, bool or float equal to 0 (0, False, 0.0), the class GeneratorLSGAN
\* for AdversarialLossType.LSGAN and for any int, bool or float equal to 1
\* (1, True, 1.0), and raises ValueError for every other int, bool, float,
\* string or None; what it returns is a class, not an instance.
C4_GeneratorLossSelection ==
    Ran("get_adversarial_loss_generator") =>
    LET t == call.args.adversarial_loss_type IN
    IF t = Missing \/ t = GAN \/ HasValue(t, 0)
    THEN Returned(Class("GeneratorBCE")) /\ result.value.kind = "class"
    ELSE IF t = LSGAN \/ HasValue(t, 1)
    THEN Returned(Class("GeneratorLSGAN")) /\ result.value.kind = "class"
    ELSE Raised("ValueError")

C4_Witness ==
    /\ Ran("get_adversarial_loss_generator")
    /\ call.args.adversarial_loss_type = PyFloatTenths(10)
    /\ Returned(Class("GeneratorLSGAN"))

\* the family of a loss class
Family(class) ==
    IF class.name \in {"GeneratorBCE", "DiscriminatorMinMax"} THEN "GAN"
    ELSE IF class.name \in {"GeneratorLSGAN", "DiscriminatorLSGAN"}
    THEN "LSGAN"
    ELSE "unknown"

\* get_adversarial_loss_discriminator has accepted or rejected its argument
\* as get_adversarial_loss_generator does, with a loss of the same family
AgreesWithGenerator ==
    LET g == get_adversarial_loss_generator(call.args.adversarial_loss_type)
    IN  /\ result.exc = g.exc
        /\ result.exc = "none" =>
               /\ Family(result.value) = Family(g.value)
               /\ Family(result.value) # "unknown"

\* C5 as stated: get_adversarial_loss_discriminator gives the class
\* DiscriminatorMinMax for AdversarialLossType.GAN, the integer 0 or no
\* argument, the class DiscriminatorLSGAN for AdversarialLossType.LSGAN or
\* the integer 1, and raises ValueError for every other value; it accepts
\* or rejects each argument exactly when get_adversarial_loss_generator
\* does, with a loss of the same family.
C5_Original ==
    Ran("get_adversarial_loss_discriminator") =>
    LET t == call.args.adversarial_loss_type IN
    /\ IF t = Missing \/ t = GAN \/ IsInteger(t, 0)
       THEN Returned(Class("DiscriminatorMinMax"))
       ELSE IF t = LSGAN \/ IsInteger(t, 1)
       THEN Returned(Class("DiscriminatorLSGAN"))
       ELSE Raised("ValueError")
    /\ AgreesWithGenerator

\* C5 (amended): get_adversarial_loss_discriminator gives the class
\* DiscriminatorMinMax for AdversarialLossType.GAN, for no argument and for
\* any int, bool or float equal to 0 (0, False, 0.0), the class
\* DiscriminatorLSGAN for AdversarialLossType.LSGAN and for any int, bool
\* or float equal to 1 (1, True, 1.0), and raises ValueError for every
\* other int, bool, float, string or None; it accepts
\* or rejects each argument exactly when get_adversarial_loss_generator
\* does, with a loss of the same family.
C5_DiscriminatorLossSelection ==
    Ran("get_adversarial_loss_discriminator") =>
    LET t == call.args.adversarial_loss_type IN
    /\ IF t = Missing \/ t = GAN \/ HasValue(t, 0)
       THEN Returned(Class("DiscriminatorMinMax"))
       ELSE IF t = LSGAN \/ HasValue(t, 1)
       THEN Returned(Class("DiscriminatorLSGAN"))
       ELSE Raised("ValueError")
    /\ AgreesWithGenerator

C5_Witness ==
    /\ Ran("get_adversarial_loss_discriminator")
    /\ call.args.adversarial_loss_type = PyFloatTenths(0)
    /\ Returned(Class("DiscriminatorMinMax"))

\* the adversarial loss types the constructors are documented to take
SelectsLoss(t) == t \in {Missing, GAN, LSGAN}

ExpectedAdversarial(t) ==
    IF t = LSGAN THEN "GeneratorLSGAN" ELSE "GeneratorBCE"

\* the value of an optional argument
Given(arg, dflt) == IF arg = Missing THEN dflt ELSE arg

RECURSIVE SumTo(_, _)
\* f[1] + ... + f[n]
SumTo(f, n) == IF n = 0 THEN 0 ELSE SumTo(f, n - 1) + f[n]

\* C8: MultiScaleDiscriminator construction creates exactly
\* n_discriminators PatchDiscriminators, in index order, the i-th (from 0)
\* for the input resolution int(input_res / 2^i), that is the r with
\* r * 2^i <= input_res < (r + 1) * 2^i, all with the min_res, kernel_size,
\* initial_filters, filters_cap, dropout, non-linearity, normalization and
\* attention settings of the constructor; with n_discriminators left at
\* its default there is one, at the full input resolution.
C8_MultiScaleConstruction ==
    Ran("MultiScaleDiscriminator.__init__") =>
    LET a == call.args
        n == IF a.n_discriminators = Missing THEN 1
             ELSE a.n_discriminators.x10 \div 10
        ds == msd[1].discriminators
    IN  /\ Len(msd) = 1
        /\ Len(ds) = n
        /\ \A k \in 1..Len(ds) :
               LET d == ds[k]
                   i == k - 1
               IN  /\ d.input_res * Pow2(i) <= a.input_res
                   /\ a.input_res < (d.input_res + 1) * Pow2(i)
                   /\ d.min_res = a.min_res
                   /\ d.kernel_size = a.kernel_size
                   /\ d.initial_filters = a.initial_filters
                   /\ d.filters_cap = a.filters_cap
                   /\ d.use_dropout = Given(a.use_dropout, PyBool(TRUE))
                   /\ d.dropout_prob = Given(a.dropout_prob, PyFloatTenths(3))
                   /\ d.non_linearity =
                          Given(a.non_linearity, PyType("LeakyReLU"))
                   /\ d.normalization_layer =
                          Given(a.normalization_layer,
                                PyType("InstanceNormalization"))
                   /\ d.use_attention = Given(a.use_attention, PyBool(FALSE))
        /\ a.n_discriminators = Missing =>
               Len(ds) = 1 /\ ds[1].input_res = a.input_res

C8_Witness ==
    /\ Ran("MultiScaleDiscriminator.__init__")
    /\ call.args.n_discriminators = PyInt(3)
    /\ call.args.input_res = 12
    /\ Len(msd) = 1
    /\ Len(msd[1].discriminators) = 3
    /\ msd[1].discriminators[3].input_res = 3

\* C9: MultiScaleDiscriminator.call returns one output per discriminator,
\* in discriminator index order: alone, as a list, when return_features is
\* False, and as the pair (outputs, features) when return_features is
\* True, features being the feature lists of the discriminators
\* concatenated in index order; each discriminator is evaluated once, with
\* return_features=True whatever the caller asked for.
C9_MultiScaleCall ==
    Ran("MultiScaleDiscriminator.call") =>
    LET a == call.args
        n == Len(msd[1].discriminators)
        asked == (a.return_features = PyBool(TRUE))
        outs == IF result.value.kind = "list" THEN result.value.items
                ELSE result.value.outs
    IN  /\ result.exc = "none"
        /\ result.value.kind = IF asked THEN "tuple" ELSE "list"
        /\ Len(outs) = n
        /\ \A i \in 1..n : outs[i].d = i /\ outs[i].layer = 0
        /\ asked =>
               LET features == result.value.features IN
               /\ Len(features) = SumTo(a.n_features, n)
               /\ \A i \in 1..n : \A j \in 1..a.n_features[i] :
                      LET f == features[SumTo(a.n_features, i - 1) + j]
                      IN  f.d = i /\ f.layer = j
        /\ Len(log) = n
        /\ \A i \in 1..n :
               /\ log[i].model = "discriminator"
               /\ log[i].index = i
               /\ log[i].return_features = TRUE
               /\ outs[i].x = log[i].x
               /\ outs[i].condition = log[i].condition

C9_Witness ==
    /\ Ran("MultiScaleDiscriminator.call")
    /\ Len(msd[1].discriminators) = 3
    /\ call.args.return_features = PyBool(TRUE)
    /\ call.args.n_features = <<1, 2, 0>>
    /\ result.exc = "none"
    /\ result.value.kind = "tuple"
    /\ Len(result.value.features) = 3

====
